---- MODULE Spec2Model ----
(***************************************************************************)
(* State-machine model of populate_elasticsearch.py: the Indexer that      *)
(* turns SPARQL result rows into ElasticSearch bulk messages, its          *)
(* SlidingWindowDictionary cache, blank-node skolemization, document       *)
(* merging and the server-side update script.                              *)
(*                                                                         *)
(* Python values are modelled as follows.  A dict is a function whose      *)
(* DOMAIN is the set of keys present; a list is a sequence; a str is a     *)
(* string; None is the string None.  A qualified name "ex:p" is the tuple  *)
(* <<"ex", "p">> so that split(":") is computed, not assumed.  The uuid5   *)
(* of a document id is the tuple <<"uuid5", id>> (deterministic, collision *)
(* free); a uuid4 is a value of Uuids that was not handed out before.      *)
(*                                                                         *)
(* Specifications: Spec is one Indexer run (json_reader over a stream of   *)
(* rows); SpecDict the dictionary alone; SpecMerge merge_bodies alone;     *)
(* SpecQuery the query builder alone; SpecCheck                            *)
(* Session.check_required_properties alone; SpecUpsert one row projected,  *)
(* turned into an update script, and the script run on a stored document.  *)
(***************************************************************************)
EXTENDS Integers, Sequences, FiniteSets, TLC

\* ------------------------------------------------------------------ bounds
\* rows read from the result stream in one run
MaxRows == 3
\* largest max_size of the cache of an Indexer (the program's is 1000)
MaxSize == 2
\* dictionary operations in the stand-alone dictionary specification
MaxOps == 5
\* largest max_size in the stand-alone dictionary specification
MaxDictSize == 3
\* longest value list of a document handed to merge_bodies on its own
MaxList == 2

\* --------------------------------------------------------------- constants
ID == "id"
TYPE == "type"
None == "None"

VARIABLES
    conf,        \* self.conf: the configuration of this index + doc_type
    session,     \* self.session.conf: the part shared by every indexer
    pc,          \* "start", "reading", "failed"
    error,       \* the exception that ended the run, or "none"
    max_size,    \* self.cache.max_size
    cache,       \* self.cache, oldest entry first: <<[key, value], ...>>
    indexed,     \* self.indexed
    properties,  \* self.properties: variable -> expanded property
    blanknodes,  \* self.blanknodes: raw blank node -> uuid4
    count,       \* self.count
    query,       \* the lines of the query returned by sparql()
    msg,         \* the message binding_as_doc returned last
    hist,        \* history: what the last call did
    clock,       \* history: number of stores into the cache so far
    stored_at,   \* history: key -> clock of its most recent store
    resident_since, \* history: key -> clock of the store that made it resident
    seen_values, \* history: key -> document key -> values of all rows so far
    resolved,    \* history: the <<raw key, identifier>> pairs skolemize returned
    yielded      \* the messages json_reader has yielded to bulk(), in order

vars == <<conf, session, pc, error, max_size, cache, indexed, properties,
          blanknodes, count, query, msg, hist, clock, stored_at,
          resident_since, seen_values, resolved, yielded>>

\* ------------------------------------------------------- small dict helpers
EmptyMap == [x \in {} |-> x]

Put(f, k, v) == [x \in (DOMAIN f) \cup {k} |-> IF x = k THEN v ELSE f[x]]

Range(f) == {f[x] : x \in DOMAIN f}

ToSet(s) == {s[i] : i \in 1..Len(s)}

NoDuplicates(s) == \A i, j \in 1..Len(s) : i # j => s[i] # s[j]

\* ------------------------------------------------- SlidingWindowDictionary
cache_keys(c) == {c[i].key : i \in 1..Len(c)}

\* OrderedDict.get(key): the value, or None
cache_get(c, k) ==
    IF k \in cache_keys(c)
    THEN (c[CHOOSE i \in 1..Len(c) : c[i].key = k]).value
    ELSE None

\* mutant: a lookup moves the entry to the end, as an LRU cache does
after_get_refreshes(c, k) ==
    SelectSeq(c, LAMBDA e : e.key # k) \o SelectSeq(c, LAMBDA e : e.key = k)

\* the dictionary after OrderedDict.get(key): a lookup changes nothing
after_get(c, k) == c

\* the number of popitem(last=False) calls of the while loop of __setitem__
popped_count(c, max) == IF Len(c) >= max THEN Len(c) - max + 1 ELSE 0

\* the keys the while loop of __setitem__ removes, in the order removed
popped_keys(c, max) == [i \in 1..popped_count(c, max) |-> c[i].key]

\* mutant: the loop tests len(self) > max_size
setitem_off_by_one(c, max, k, v) ==
    LET n == IF Len(c) > max THEN Len(c) - max ELSE 0
        kept == SubSeq(c, n + 1, Len(c))
    IN  IF k \in cache_keys(kept)
        THEN [i \in 1..Len(kept) |->
                IF kept[i].key = k THEN [key |-> k, value |-> v] ELSE kept[i]]
        ELSE Append(kept, [key |-> k, value |-> v])

\* __setitem__: pop the oldest entries while len(self) >= max_size, then
\* OrderedDict.__setitem__ (a resident key keeps its position, a new key
\* goes to the end)
setitem(c, max, k, v) ==
    LET n == popped_count(c, max)
        kept == SubSeq(c, n + 1, Len(c))
    IN  IF k \in cache_keys(kept)
        THEN [i \in 1..Len(kept) |->
                IF kept[i].key = k THEN [key |-> k, value |-> v] ELSE kept[i]]
        ELSE Append(kept, [key |-> k, value |-> v])

\* history of a store: the clocks after the store of key k into cache c
StoredAtAfter(c, max, k) ==
    LET c2 == setitem(c, max, k, None)
    IN  [x \in cache_keys(c2) |-> IF x = k THEN clock + 1 ELSE stored_at[x]]

ResidentSinceAfter(c, max, k) ==
    LET n == popped_count(c, max)
        kept == SubSeq(c, n + 1, Len(c))
        c2 == setitem(c, max, k, None)
    IN  [x \in cache_keys(c2) |->
            IF x = k /\ k \notin cache_keys(kept) THEN clock + 1
            ELSE resident_since[x]]

\* ----------------------------------------------------------- configuration
\* A property of the configuration: a bare string "prefix:local" (kind
\* "str") or a dict with sparql, variable, jsonld and maybe required.
Shorthand(prefix, local) == [kind |-> "str", qname |-> <<prefix, local>>]

Detailed(prefix, local, variable, jsonld) ==
    [kind |-> "dict", sparql |-> <<prefix, local>>, variable |-> variable,
     jsonld |-> jsonld]

Required(p) == [x \in (DOMAIN p) \cup {"required"} |->
                    IF x = "required" THEN TRUE ELSE p[x]]

\* session.conf as an Indexer reads it: the common properties and the
\* "sparql" dict, which holds the uri of the endpoint and maybe a limit
SessionConf(common) ==
    [common_properties |-> common, sparql |-> [uri |-> "http://sparql/"]]

\* one shorthand property, no type
CfgShorthand ==
    [session |-> SessionConf(<<>>),
     conf |-> [properties |-> <<Shorthand("ex", "p")>>]]

\* a type, a detailed property whose document key differs from its
\* variable, and rdf:type as a shorthand property (variable "type")
CfgDetailed ==
    [session |-> SessionConf(<<Shorthand("rdf", "type")>>),
     conf |-> [type |-> "ex:T",
               properties |-> <<Required(Detailed("ex", "q", "q", "ex:q"))>>]]

\* a type with transitive subclass expansion and one required property
\* whose document key is its variable, as for a shorthand property
CfgSubclasses ==
    [session |-> SessionConf(<<>>),
     conf |-> [type |-> "ex:T", subclasses |-> "owl",
               properties |-> <<Required(Detailed("ex", "r", "r", "r"))>>]]

\* a type and no property at all
CfgNoProperties ==
    [session |-> SessionConf(<<>>), conf |-> [type |-> "ex:T"]]

\* two detailed properties with the same variable
CfgDuplicate ==
    [session |-> SessionConf(<<Detailed("ex", "q", "v", "q")>>),
     conf |-> [properties |-> <<Detailed("ex", "r", "v", "r")>>]]

\* a detailed property whose variable is the one a shorthand property
\* before it was given
CfgShorthandTaken ==
    [session |-> SessionConf(<<Shorthand("ex", "p")>>),
     conf |-> [properties |-> <<Required(Detailed("ex", "q", "p", "q"))>>]]

\* the same shorthand property three times
CfgThrice ==
    [session |-> SessionConf(<<Shorthand("ex", "p")>>),
     conf |-> [properties |-> <<Shorthand("ex", "p"), Shorthand("ex", "p")>>]]

Configs ==
    {CfgShorthand, CfgDetailed, CfgSubclasses,
     CfgNoProperties, CfgDuplicate, CfgShorthandTaken, CfgThrice}

\* ------------------------------------------------------------ query builder
is_property_required(prop) ==
    IF "required" \in DOMAIN prop THEN prop.required ELSE FALSE

\* str(uuid.uuid5(NAMESPACE_URL, expand_qname(prop))) without the dashes
\* (a table over the qualified names of Configs, one name each)
uuid5_hex(qname) ==
    CASE qname = <<"ex", "p">> -> "uuid5(ex:p)"
      [] qname = <<"ex2", "p">> -> "uuid5(ex2:p)"
      [] qname = <<"ex", "q">> -> "uuid5(ex:q)"
      [] qname = <<"ex", "r">> -> "uuid5(ex:r)"
      [] qname = <<"rdf", "type">> -> "uuid5(rdf:type)"
      [] OTHER -> "uuid5(other)"

variable_for_property_name(props, qname) ==
    LET short == qname[Len(qname)]
    IN  IF short \notin DOMAIN props THEN short ELSE uuid5_hex(qname)

\* mutant: expand_property stores the property without looking for its name
expand_property_overwrites(props, p) ==
    LET q == IF p.kind = "str"
             THEN [kind |-> "dict", sparql |-> p.qname,
                   variable |-> variable_for_property_name(props, p.qname),
                   jsonld |-> variable_for_property_name(props, p.qname)]
             ELSE p
    IN  [p |-> q, properties |-> Put(props, q.variable, q), error |-> "none"]

\* expand_property: [p, properties, error]
expand_property(props, p) ==
    LET variable == variable_for_property_name(props, p.qname)
        q == IF p.kind = "str"
             THEN [kind |-> "dict", sparql |-> p.qname,
                   variable |-> variable, jsonld |-> variable]
             ELSE p
        name == q.variable
    IN  IF name \in DOMAIN props
        THEN [p |-> q, properties |-> props,
              error |-> "Duplicate property name"]
        ELSE [p |-> q, properties |-> Put(props, name, q), error |-> "none"]

\* map(self.expand_property, ps), left to right, stopping at an exception
RECURSIVE expand_all(_, _, _)
expand_all(ps, props, done) ==
    IF ps = <<>>
    THEN [list |-> done, properties |-> props, error |-> "none"]
    ELSE LET r == expand_property(props, Head(ps))
         IN  IF r.error # "none"
             THEN [list |-> done, properties |-> r.properties,
                   error |-> r.error]
             ELSE expand_all(Tail(ps), r.properties, Append(done, r.p))

\* mutant: the sort key is is_property_required, without negate
sort_properties_optional_first(ps) ==
    SelectSeq(ps, LAMBDA p : ~is_property_required(p))
        \o SelectSeq(ps, is_property_required)

\* list.sort(key=negate(is_property_required)): stable, False before True
sort_properties(ps) ==
    SelectSeq(ps, is_property_required)
        \o SelectSeq(ps, LAMBDA p : ~is_property_required(p))

\* sparql_property: one line of the query
sparql_property(prop) ==
    [kind |-> "property", sparql |-> prop.sparql, variable |-> prop.variable,
     optional |-> ~is_property_required(prop)]

\* the values of conf.get("subclasses") that "if subclasses:" takes as false
Falsy == {None, ""}

\* mutant: the subclass pattern is the single-level one whatever is asked
type_lines_single_level(cnf) ==
    IF "type" \notin DOMAIN cnf THEN <<>>
    ELSE <<[kind |-> "type", type |-> cnf.type]>>
         \o (IF "subclasses" \in DOMAIN cnf /\ cnf.subclasses \notin Falsy
             THEN <<[kind |-> "union"], [kind |-> "a subClass"],
                    [kind |-> "subClassOf", type |-> cnf.type],
                    [kind |-> "end union"]>>
             ELSE <<>>)

\* mutant: ?subClass a owl:Class is added to the single-level pattern
type_lines_check_single_level(cnf) ==
    IF "type" \notin DOMAIN cnf THEN <<>>
    ELSE <<[kind |-> "type", type |-> cnf.type]>>
         \o (IF "subclasses" \in DOMAIN cnf /\ cnf.subclasses \notin Falsy
             THEN <<[kind |-> "union"], [kind |-> "a subClass"]>>
                  \o (IF cnf.subclasses = "owl"
                      THEN <<[kind |-> "subClassOf+", type |-> cnf.type]>>
                      ELSE <<[kind |-> "subClass a owl:Class"],
                             [kind |-> "subClassOf", type |-> cnf.type]>>)
                  \o <<[kind |-> "end union"]>>
             ELSE <<>>)

\* the lines sparql() appends for the type and its subclasses
type_lines(cnf) ==
    IF "type" \notin DOMAIN cnf THEN <<>>
    ELSE <<[kind |-> "type", type |-> cnf.type]>>
         \o (IF "subclasses" \in DOMAIN cnf /\ cnf.subclasses \notin Falsy
             THEN <<[kind |-> "union"], [kind |-> "a subClass"]>>
                  \o (IF cnf.subclasses = "owl"
                      THEN <<[kind |-> "subClass a owl:Class"],
                             [kind |-> "subClassOf+", type |-> cnf.type]>>
                      ELSE <<[kind |-> "subClassOf", type |-> cnf.type]>>)
                  \o <<[kind |-> "end union"]>>
             ELSE <<>>)

\* sparql(): [query, properties, error]
sparql(ses, cnf) ==
    LET head == <<[kind |-> "prefixes"], [kind |-> "select"],
                  [kind |-> "where"]>>
                \o (IF "graph" \in DOMAIN cnf
                    THEN <<[kind |-> "graph", graph |-> cnf.graph]>> ELSE <<>>)
                \o type_lines(cnf)
        foot == (IF "graph" \in DOMAIN cnf
                 THEN <<[kind |-> "end graph"]>> ELSE <<>>)
                \o <<[kind |-> "end where"]>>
                \o (IF "limit" \in DOMAIN ses.sparql
                    THEN <<[kind |-> "limit", limit |-> ses.sparql.limit]>>
                    ELSE <<>>)
        common == expand_all(ses.common_properties, EmptyMap, <<>>)
        own == IF common.error # "none" THEN common
               ELSE expand_all(IF "properties" \in DOMAIN cnf
                               THEN cnf.properties ELSE <<>>,
                               common.properties, common.list)
    IN  IF own.error # "none"
        THEN [query |-> <<>>, properties |-> own.properties, error |-> own.error]
        ELSE IF own.list = <<>>
        THEN [query |-> <<>>, properties |-> own.properties,
              error |-> "No properties configured"]
        ELSE [query |-> head
                        \o [i \in 1..Len(own.list) |->
                              sparql_property(sort_properties(own.list)[i])]
                        \o foot,
              properties |-> own.properties, error |-> "none"]

\* ------------------------------------------------------------ result rows
\* A row is [id |-> [type, value], bindings |-> <<[var, value], ...>>]: the
\* binding of ?id and the other bound variables in the order of the row.
\* A null binding (None, or an object whose value is None) has value None.
Uuids == {"u1", "u2"}

RawIds ==
    {[type |-> "uri", value |-> "http://e/E1"],
     [type |-> "uri", value |-> "http://e/E%32"],
     [type |-> "bnode", value |-> "b1"],
     [type |-> "bnode", value |-> "b2"]}

Values == {"1", "2", "3"}

TypeValues == {"ex:T", "ex:S"}

\* the values a variable of the query can be bound to in a row
ValuesOf(var) ==
    CASE var = TYPE -> TypeValues
      [] var = "subClass" -> {"ex:S"}
      [] var = "q" -> {"1"}
      [] var = "r" -> {"1"}
      [] OTHER -> Values \cup {None}

\* the variables the query binds besides ?id, in the order of the query,
\* each with whether its pattern is optional (a UNION branch, OPTIONAL)
QueryVariables(q) ==
    LET ps == SelectSeq(q, LAMBDA l : l.kind = "property")
    IN  (IF \E i \in 1..Len(q) : q[i].kind = "a subClass"
         THEN <<[var |-> "subClass", optional |-> TRUE]>> ELSE <<>>)
        \o [i \in 1..Len(ps) |->
               [var |-> ps[i].variable, optional |-> ps[i].optional]]

\* every row over the variables vs: an optional one may be unbound
RECURSIVE BindingsOver(_)
BindingsOver(vs) ==
    IF vs = <<>> THEN {<<>>}
    ELSE LET rest == BindingsOver(Tail(vs))
         IN  (IF Head(vs).optional THEN rest ELSE {})
             \cup {<<[var |-> Head(vs).var, value |-> v]>> \o r :
                      v \in ValuesOf(Head(vs).var), r \in rest}

Rows(q) ==
    {[id |-> i, bindings |-> b] :
        i \in RawIds, b \in BindingsOver(QueryVariables(q))}

\* ----------------------------------------------------------- projection
\* urllib.parse.unquote on the URIs of RawIds: %32 is the character 2
unquote(value) ==
    CASE value = "http://e/E%32" -> "http://e/E2"
      [] OTHER -> value

\* unescape(result)
unescape(result) ==
    IF result.type = "uri" THEN unquote(result.value) ELSE result.value

\* uuid.UUID.urn
urn(u) ==
    CASE u = "u1" -> "urn:uuid:u1"
      [] u = "u2" -> "urn:uuid:u2"
      [] OTHER -> "urn:uuid:other"

\* mutant: skolemize makes a new uuid4 on every call
skolemize_always_fresh(bn, bnode, fresh) ==
    [blanknodes |-> Put(bn, bnode, fresh), urn |-> urn(fresh)]

\* skolemize(bnode), fresh being the value uuid.uuid4() returns if called:
\* [blanknodes, urn]
skolemize(bn, bnode, fresh) ==
    LET bn2 == IF bnode \notin DOMAIN bn THEN Put(bn, bnode, fresh) ELSE bn
    IN  [blanknodes |-> bn2, urn |-> urn(bn2[bnode])]

\* uuid.uuid5(uuid.NAMESPACE_URL, uri)
uuid5(uri) == <<"uuid5", uri>>

\* the types list of binding_as_doc
types_of(node, cnf) ==
    (IF "type" \in DOMAIN cnf THEN <<cnf.type>> ELSE <<>>)
    \o [i \in 1..Len(SelectSeq(node.bindings, LAMBDA b : b.var = TYPE)) |->
           SelectSeq(node.bindings, LAMBDA b : b.var = TYPE)[i].value]

\* the loop "for var in node" of binding_as_doc: [body, params, error]
RECURSIVE bind_variables(_, _, _, _)
bind_variables(bs, props, body, params) ==
    IF bs = <<>>
    THEN [body |-> body, params |-> params, error |-> "none"]
    ELSE LET var == Head(bs).var
             value == Head(bs).value
         IN  IF var \in {ID, TYPE}
             THEN bind_variables(Tail(bs), props, body, params)
             ELSE IF var # "subClass" /\ var \notin DOMAIN props
             THEN [body |-> body, params |-> params, error |-> "KeyError"]
             ELSE LET jsonld == IF var = "subClass" THEN "rdfs:subClassOf"
                                ELSE props[var].jsonld
                  IN  IF value = None
                      THEN bind_variables(Tail(bs), props,
                               Put(body, jsonld, <<>>), Put(params, var, None))
                      ELSE bind_variables(Tail(bs), props,
                               Put(body, jsonld, <<value>>),
                               Put(params, var, value))

\* body and params of binding_as_doc for the row node with document id uri
project(node, cnf, props, uri) ==
    LET types == types_of(node, cnf)
        body0 == IF types # <<>>
                 THEN Put(Put(EmptyMap, "@id", uri), "@type", types)
                 ELSE Put(EmptyMap, "@id", uri)
        params0 == IF \E i \in 1..Len(node.bindings) : node.bindings[i].var = TYPE
                   THEN Put(EmptyMap, "__type", types[Len(types)])
                   ELSE EmptyMap
    IN  bind_variables(node.bindings, props, body0, params0)

\* -------------------------------------------------------------- merging
\* the sequences that enumerate the set S once each: list(S) of a Python
\* set comes in an order the program does not control
Orderings(S) ==
    {s \in [1..Cardinality(S) -> S] :
        \A i, j \in 1..Cardinality(S) : i # j => s[i] # s[j]}

\* mutant: new values are appended without the set difference
merged_values_keep_duplicates(old_v, new_v) == {old_v \o new_v}

\* old_v.extend(list(set(new_v) - set(old_v))): the lists it can give
merged_values(old_v, new_v) ==
    {old_v \o s : s \in Orderings(ToSet(new_v) \ ToSet(old_v))}

\* mutant: a key of the new document replaces the list of the old one
merge_bodies_new_replaces_old(old, new) ==
    {[k \in (DOMAIN old) \cup (DOMAIN new) |->
        IF k = "@id" THEN old[k]
        ELSE IF k \in DOMAIN new THEN new[k] ELSE old[k]]}

\* merge_bodies(old, new): the documents it can return.  Both documents
\* hold "@id"; old.get(k, []) and new.get(k, set()) stand for a missing key.
merge_bodies(old, new) ==
    LET keys == ((DOMAIN old) \cup (DOMAIN new)) \ {"@id"}
        old_v(k) == IF k \in DOMAIN old THEN old[k] ELSE <<>>
        new_v(k) == IF k \in DOMAIN new THEN new[k] ELSE <<>>
        lists == UNION {merged_values(old_v(k), new_v(k)) : k \in keys}
    IN  {Put(b, "@id", old["@id"]) :
            b \in {f \in [keys -> lists] :
                     \A k \in keys : f[k] \in merged_values(old_v(k), new_v(k))}}

\* ------------------------------------------------------- update script
\* var.startswith("@") on the document keys of this model
starts_with_at(key) == key \in {"@id", "@type"}

\* mutant: the loop of update_script_for does not skip the "@" keys
update_script_for_every_key(props, body) ==
    [script |-> {[jsonld |-> IF var \in DOMAIN props THEN props[var].jsonld
                             ELSE var,
                  var |-> var] : var \in DOMAIN body},
     error |-> "none"]

\* update_script_for(body): [script, error].  The script is the set of its
\* if/else blocks, one per key, each naming the document key and the
\* script variable; self.properties[var] raises KeyError for a key that is
\* no variable of the query.
update_script_for(props, body) ==
    LET vs == {k \in DOMAIN body : ~starts_with_at(k)}
    IN  IF \E var \in vs : var \notin DOMAIN props
        THEN [script |-> {}, error |-> "KeyError"]
        ELSE [script |-> {[jsonld |-> props[var].jsonld, var |-> var] :
                            var \in vs},
              error |-> "none"]

\* one if/else block of the script, run on the stored document source with
\* the script variable e.var bound by params: [source, error]
\*   if (! ctx._source.containsKey(jsonld)) { ctx._source[jsonld] = [var] }
\*   else if (! ctx._source[jsonld].contains(var)) { ctx._source[jsonld] += var }
\* A null parameter is the value None: [var] is then the list holding it,
\* contains(var) looks for it and += appends it.
script_block(source, e, params) ==
    IF e.var \notin DOMAIN params
    THEN [source |-> source, error |-> "MissingProperty"]
    ELSE IF e.jsonld \notin DOMAIN source
    THEN [source |-> Put(source, e.jsonld, <<params[e.var]>>), error |-> "none"]
    ELSE IF params[e.var] \notin ToSet(source[e.jsonld])
    THEN [source |-> Put(source, e.jsonld,
                         Append(source[e.jsonld], params[e.var])),
          error |-> "none"]
    ELSE [source |-> source, error |-> "none"]

\* the whole script run on a stored document, block after block (the blocks
\* of one script name different variables): [source, error]
RECURSIVE run_script(_, _, _)
run_script(source, script, params) ==
    IF script = {} THEN [source |-> source, error |-> "none"]
    ELSE LET e == CHOOSE x \in script : TRUE
             r == script_block(source, e, params)
         IN  IF r.error # "none" THEN r
             ELSE run_script(r.source, script \ {e}, params)

\* ------------------------------------------------------- reconciliation
\* msg = { "_index": ..., "_type": ..., "_id": doc_id }
message(uri) ==
    [x \in {"_index", "_type", "_id"} |->
        CASE x = "_index" -> "index" [] x = "_type" -> "doc_type"
          [] OTHER -> uri]

\* mutant: the first sighting does not keep the document in the cache
first_sighting_not_cached(idx, c, max, doc_uuid, body, m) ==
    [indexed |-> idx \cup {doc_uuid}, cache |-> c,
     msg |-> Put(m, "_source", body), error |-> "none"]

\* "if not doc_uuid in self.indexed": [indexed, cache, msg, error]
first_sighting(idx, c, max, doc_uuid, body, m) ==
    [indexed |-> idx \cup {doc_uuid},
     cache |-> setitem(c, max, doc_uuid, body),
     msg |-> Put(m, "_source", body), error |-> "none"]

\* "if cached": merged is the document merge_bodies(cached, body) returned
cache_hit(idx, c, max, doc_uuid, merged, m) ==
    [indexed |-> idx,
     cache |-> setitem(c, max, doc_uuid, merged),
     msg |-> Put(m, "_source", merged), error |-> "none"]

\* mutant: the forgotten document is replaced by the partial one
cache_miss_replaces(idx, c, props, body, params, m) ==
    [indexed |-> idx, cache |-> c, msg |-> Put(m, "_source", body),
     error |-> "none"]

\* the else branch: the document was indexed but is no longer cached
cache_miss(idx, c, props, body, params, m) ==
    LET s == update_script_for(props, body)
    IN  IF s.error # "none"
        THEN [indexed |-> idx, cache |-> c, msg |-> m, error |-> s.error]
        ELSE [indexed |-> idx, cache |-> c,
              msg |-> Put(Put(Put(Put(m, "_op_type", "update"),
                                  "script", s.script),
                              "params", params),
                          "upsert", body),
              error |-> "none"]

\* ------------------------------------------------------------- the run
NoCall == [op |-> "none"]

Init ==
    /\ \E c \in Configs : conf = c.conf /\ session = c.session
    /\ max_size \in 1..MaxSize
    /\ pc = "start"
    /\ error = "none"
    /\ cache = <<>>
    /\ indexed = {}
    /\ properties = EmptyMap
    /\ blanknodes = EmptyMap
    /\ count = 0
    /\ query = <<>>
    /\ msg = EmptyMap
    /\ hist = NoCall
    /\ clock = 0
    /\ stored_at = EmptyMap
    /\ resident_since = EmptyMap
    /\ seen_values = EmptyMap
    /\ resolved = {}
    /\ yielded = <<>>

\* json_reader up to its first row: sparqlURL() calls sparql()
build_query ==
    /\ pc = "start"
    /\ LET r == sparql(session, conf)
       IN  /\ properties' = r.properties
           /\ query' = r.query
           /\ error' = r.error
           /\ pc' = IF r.error = "none" THEN "reading" ELSE "failed"
    /\ hist' = [op |-> "sparql"]
    /\ UNCHANGED <<conf, session, max_size, cache, indexed, blanknodes, count,
                   msg, clock, stored_at, resident_since, seen_values,
                   resolved, yielded>>

\* history: the values of every document key in the rows seen for a key
SeenValuesAfter(doc_uuid, body) ==
    LET before == IF doc_uuid \in DOMAIN seen_values
                  THEN seen_values[doc_uuid] ELSE EmptyMap
        keys == ((DOMAIN before) \cup (DOMAIN body)) \ {"@id"}
    IN  Put(seen_values, doc_uuid,
            [k \in keys |->
                (IF k \in DOMAIN before THEN before[k] ELSE {})
                \cup (IF k \in DOMAIN body THEN ToSet(body[k]) ELSE {})])

\* the uri of binding_as_doc: [blanknodes, urn]
document_id(bn, node, fresh) ==
    IF node.id.type = "uri"
    THEN [blanknodes |-> bn, urn |-> unescape(node.id)]
    ELSE skolemize(bn, node.id.value, fresh)

\* the branch binding_as_doc takes for a projected row; "if cached" is
\* true of every cached document, which holds "@id" at least
path_of(idx, c, doc_uuid, pr) ==
    IF pr.error # "none" THEN "error"
    ELSE IF doc_uuid \notin idx THEN "new"
    ELSE IF doc_uuid \in cache_keys(c) THEN "hit"
    ELSE "miss"

\* lines 374-407 of binding_as_doc: [indexed, cache, msg, error]
reconcile(path, idx, c, max, props, doc_uuid, pr, merged, m) ==
    CASE path = "new" -> first_sighting(idx, c, max, doc_uuid, pr.body, m)
      [] path = "hit" -> cache_hit(idx, c, max, doc_uuid, merged, m)
      [] path = "miss" -> cache_miss(idx, c, props, pr.body, pr.params, m)
      [] OTHER -> [indexed |-> idx, cache |-> c, msg |-> m, error |-> pr.error]

\* One turn of the loop of json_reader: binding_as_doc(node) for the next
\* row of the stream, fresh being what uuid.uuid4() returns if skolemize
\* calls it, then the yield of the message it returned (it returns a dict,
\* never None).  An exception of binding_as_doc ends the generator.
binding_as_doc(node) ==
    /\ pc = "reading"
    /\ count < MaxRows
    /\ count' = count + 1
    /\ \E fresh \in (IF node.id.type = "uri" \/ node.id.value \in DOMAIN blanknodes
                     THEN {None} ELSE Uuids \ Range(blanknodes)) :
       \E sk \in {document_id(blanknodes, node, fresh)} :
       \E pr \in {project(node, conf, properties, sk.urn)} :
       \E doc_uuid \in {uuid5(sk.urn)} :
       \E looked \in {IF doc_uuid \in indexed
                      THEN after_get(cache, doc_uuid) ELSE cache} :
       \E path \in {path_of(indexed, looked, doc_uuid, pr)} :
       \E merged \in (IF path = "hit"
                      THEN merge_bodies(cache_get(looked, doc_uuid), pr.body)
                      ELSE {pr.body}) :
       \E r \in {reconcile(path, indexed, looked, max_size, properties,
                           doc_uuid, pr, merged, message(sk.urn))} :
            /\ blanknodes' = sk.blanknodes
            /\ indexed' = r.indexed
            /\ cache' = r.cache
            /\ error' = r.error
            /\ msg' = IF r.error = "none" THEN r.msg ELSE msg
            /\ yielded' = IF r.error = "none" THEN Append(yielded, r.msg)
                          ELSE yielded
            /\ pc' = IF r.error = "none" THEN "reading" ELSE "failed"
            /\ resolved' = IF node.id.type = "uri" THEN resolved
                           ELSE resolved \cup {<<node.id.value, sk.urn>>}
            /\ hist' = [op |-> "binding_as_doc", node |-> node,
                        rows |-> Append(IF hist.op = "binding_as_doc"
                                        THEN hist.rows ELSE <<>>, node),
                        was_resolved |-> node.id.type # "uri"
                                         /\ node.id.value \in DOMAIN blanknodes,
                        uri |-> sk.urn, key |-> doc_uuid,
                        body |-> pr.body, params |-> pr.params,
                        path |-> path, before |-> looked,
                        was_indexed |-> doc_uuid \in indexed,
                        seen_before |-> indexed,
                        since_before |-> resident_since,
                        stored_before |-> stored_at,
                        evicted |-> IF path \in {"new", "hit"}
                                    THEN popped_keys(looked, max_size)
                                    ELSE <<>>,
                        raised |-> r.error # "none"]
            /\ clock' = IF path \in {"new", "hit"} THEN clock + 1 ELSE clock
            /\ stored_at' = IF path \in {"new", "hit"}
                            THEN StoredAtAfter(looked, max_size, doc_uuid)
                            ELSE stored_at
            /\ resident_since' = IF path \in {"new", "hit"}
                                 THEN ResidentSinceAfter(looked, max_size, doc_uuid)
                                 ELSE resident_since
            /\ seen_values' = IF pr.error = "none"
                              THEN SeenValuesAfter(doc_uuid, pr.body)
                              ELSE seen_values
    /\ UNCHANGED <<conf, session, max_size, properties, query>>

Next ==
    \/ build_query
    \/ \E node \in Rows(query) : binding_as_doc(node)

Spec == Init /\ [][Next]_vars

\* ------------------------------------- the dictionary on its own (SpecDict)
\* A SlidingWindowDictionary under any stores and lookups; count counts
\* the stores.
DictKeys == {"a", "b", "c", "d"}

InitDict ==
    /\ conf = CfgShorthand.conf
    /\ session = CfgShorthand.session
    /\ max_size \in 1..MaxDictSize
    /\ pc = "dict"
    /\ error = "none"
    /\ cache = <<>>
    /\ indexed = {}
    /\ properties = EmptyMap
    /\ blanknodes = EmptyMap
    /\ count = 0
    /\ query = <<>>
    /\ msg = EmptyMap
    /\ hist = NoCall
    /\ clock = 0
    /\ stored_at = EmptyMap
    /\ resident_since = EmptyMap
    /\ seen_values = EmptyMap
    /\ resolved = {}
    /\ yielded = <<>>

\* d[k] = v
dict_setitem(k, v) ==
    /\ pc = "dict"
    /\ count < MaxOps
    /\ count' = count + 1
    /\ cache' = setitem(cache, max_size, k, v)
    /\ hist' = [op |-> "setitem", key |-> k, before |-> cache,
                since_before |-> resident_since, stored_before |-> stored_at,
                evicted |-> popped_keys(cache, max_size)]
    /\ clock' = clock + 1
    /\ stored_at' = StoredAtAfter(cache, max_size, k)
    /\ resident_since' = ResidentSinceAfter(cache, max_size, k)
    /\ UNCHANGED <<conf, session, pc, error, max_size, indexed, properties,
                   blanknodes, query, msg, seen_values, resolved, yielded>>

\* d.get(k)
dict_get(k) ==
    /\ pc = "dict"
    /\ cache' = after_get(cache, k)
    /\ hist' = [op |-> "get", key |-> k, before |-> cache,
                since_before |-> resident_since, stored_before |-> stored_at,
                evicted |-> <<>>]
    /\ UNCHANGED <<conf, session, pc, error, max_size, indexed, properties,
                   blanknodes, count, query, msg, clock, stored_at,
                   resident_since, seen_values, resolved, yielded>>

NextDict ==
    \/ \E k \in DictKeys : dict_setitem(k, "x")
    \/ \E k \in DictKeys : dict_get(k)

SpecDict == InitDict /\ [][NextDict]_vars

\* ------------------------------------ merge_bodies on its own (SpecMerge)
\* the lists of at most n values of S, duplicates included
RECURSIVE ListsUpTo(_, _)
ListsUpTo(S, n) ==
    IF n = 0 THEN {<<>>}
    ELSE LET shorter == ListsUpTo(S, n - 1)
         IN  shorter \cup {Append(l, v) : l \in shorter, v \in S}

\* documents of one entity: "@id", maybe "@type", maybe the key "p"
Documents ==
    LET ids == {Put(EmptyMap, "@id", "http://e/E1")}
        typed == ids \cup {Put(d, "@type", l) :
                             d \in ids, l \in ListsUpTo({"ex:T", "ex:S"}, MaxList)}
    IN  typed \cup {Put(d, "p", l) :
                      d \in typed, l \in ListsUpTo({"1", "2"}, MaxList)}

InitMerge ==
    /\ conf = CfgShorthand.conf
    /\ session = CfgShorthand.session
    /\ max_size = 1
    /\ pc = "merge"
    /\ error = "none"
    /\ cache = <<>>
    /\ indexed = {}
    /\ properties = EmptyMap
    /\ blanknodes = EmptyMap
    /\ count = 0
    /\ query = <<>>
    /\ msg = EmptyMap
    /\ \E old \in Documents, new \in Documents :
          hist = [op |-> "arguments", old |-> old, new |-> new]
    /\ clock = 0
    /\ stored_at = EmptyMap
    /\ resident_since = EmptyMap
    /\ seen_values = EmptyMap
    /\ resolved = {}
    /\ yielded = <<>>

\* body = merge_bodies(old, new)
call_merge_bodies ==
    /\ pc = "merge"
    /\ hist.op = "arguments"
    /\ \E body \in merge_bodies(hist.old, hist.new) :
          hist' = [op |-> "merge_bodies", old |-> hist.old, new |-> hist.new,
                   body |-> body]
    /\ UNCHANGED <<conf, session, pc, error, max_size, cache, indexed,
                   properties, blanknodes, count, query, msg, clock, stored_at,
                   resident_since, seen_values, resolved, yielded>>

NextMerge == call_merge_bodies

SpecMerge == InitMerge /\ [][NextMerge]_vars

\* ---------------------------------- the query builder alone (SpecQuery)
\* longest list of common properties, and of properties of the type
MaxProps == 2

\* the properties a configuration is made of: two shorthand names with the
\* same local part, required and optional detailed ones, and a detailed
\* one whose variable is the local part of the shorthand names
PropertyPool ==
    {Shorthand("ex", "p"), Shorthand("ex2", "p"),
     Required(Detailed("ex", "q", "q", "ex:q")),
     Detailed("ex", "r", "r", "r"),
     Required(Detailed("ex", "s", "p", "s"))}

\* what a type configuration says of the type and its subclasses
TypeOptions ==
    {EmptyMap,
     [type |-> "ex:T"],
     [type |-> "ex:T", subclasses |-> "owl"],
     [type |-> "ex:T", subclasses |-> "rdfs"],
     [type |-> "ex:T", subclasses |-> None],
     [subclasses |-> "owl"],
     [graph |-> "http://g/"],
     [graph |-> "http://g/", type |-> "ex:T", subclasses |-> "owl"]}

\* the "sparql" dict of the session, without and with a limit
SparqlOptions ==
    {[uri |-> "http://sparql/"], [uri |-> "http://sparql/", limit |-> "10"]}

InitQuery ==
    /\ \E common \in ListsUpTo(PropertyPool, MaxProps),
          own \in ListsUpTo(PropertyPool, MaxProps),
          t \in TypeOptions, sp \in SparqlOptions :
          /\ session = [common_properties |-> common, sparql |-> sp]
          /\ conf = Put(t, "properties", own)
    /\ max_size = 1
    /\ pc = "start"
    /\ error = "none"
    /\ cache = <<>>
    /\ indexed = {}
    /\ properties = EmptyMap
    /\ blanknodes = EmptyMap
    /\ count = 0
    /\ query = <<>>
    /\ msg = EmptyMap
    /\ hist = NoCall
    /\ clock = 0
    /\ stored_at = EmptyMap
    /\ resident_since = EmptyMap
    /\ seen_values = EmptyMap
    /\ resolved = {}
    /\ yielded = <<>>

NextQuery == build_query

SpecQuery == InitQuery /\ [][NextQuery]_vars

\* ----------------- Session.check_required_properties alone (SpecCheck)
\* is_property_required(p) of a property as the configuration gives it:
\* p.get raises AttributeError for a str
required_or_error(p) ==
    IF p.kind = "str" THEN "AttributeError"
    ELSE IF is_property_required(p) THEN "required" ELSE "optional"

\* the loops over the indexes and their types, ts being the type
\* configurations in the order of the loops: the error raised, or "none"
RECURSIVE check_types(_)
check_types(ts) ==
    IF ts = <<>> THEN "none"
    ELSE LET type_conf == Head(ts)
             ps == IF "properties" \in DOMAIN type_conf
                   THEN type_conf.properties ELSE <<>>
         IN  IF "type" \in DOMAIN type_conf THEN check_types(Tail(ts))
             ELSE IF \E i \in 1..Len(ps) :
                        required_or_error(ps[i]) = "AttributeError"
             THEN "AttributeError"
             ELSE "No type: or property with required:true"

\* check_required_properties(): the error raised, or "none"
check_required_properties(ses) ==
    IF \E i \in 1..Len(ses.common_properties) :
            /\ ses.common_properties[i].kind # "str"
            /\ is_property_required(ses.common_properties[i])
    THEN "none"
    ELSE check_types(ses.indexes)

\* most types of a configuration
MaxTypes == 2

\* the properties of the configurations checked
CheckPool ==
    {Shorthand("ex", "p"), Detailed("ex", "r", "r", "r"),
     Required(Detailed("ex", "q", "q", "ex:q"))}

\* the lists of common properties of the configurations checked
CommonChoices == {<<>>} \cup {<<p>> : p \in CheckPool}

\* the configurations of one type: without a type constraint any list of
\* properties or none, with one no properties or a required one
TypeConfs ==
    {EmptyMap, [type |-> "ex:T"],
     [type |-> "ex:T",
      properties |-> <<Required(Detailed("ex", "q", "q", "ex:q"))>>]}
    \cup {[properties |-> ps] : ps \in ListsUpTo(CheckPool, MaxProps)}

InitCheck ==
    /\ \E common \in CommonChoices, ts \in ListsUpTo(TypeConfs, MaxTypes) :
          session = [common_properties |-> common, indexes |-> ts]
    /\ conf = EmptyMap
    /\ max_size = 1
    /\ pc = "check"
    /\ error = "none"
    /\ cache = <<>>
    /\ indexed = {}
    /\ properties = EmptyMap
    /\ blanknodes = EmptyMap
    /\ count = 0
    /\ query = <<>>
    /\ msg = EmptyMap
    /\ hist = NoCall
    /\ clock = 0
    /\ stored_at = EmptyMap
    /\ resident_since = EmptyMap
    /\ seen_values = EmptyMap
    /\ resolved = {}
    /\ yielded = <<>>

\* session.check_required_properties()
call_check_required_properties ==
    /\ pc = "check"
    /\ error' = check_required_properties(session)
    /\ pc' = "checked"
    /\ hist' = [op |-> "check_required_properties"]
    /\ UNCHANGED <<conf, session, max_size, cache, indexed, properties,
                   blanknodes, count, query, msg, clock, stored_at,
                   resident_since, seen_values, resolved, yielded>>

NextCheck == call_check_required_properties

SpecCheck == InitCheck /\ [][NextCheck]_vars

\* ------------------------- one row sent as an update script (SpecUpsert)
\* a type, rdf:type as a common shorthand property (variable "type") and
\* one shorthand property
CfgTyped ==
    [session |-> SessionConf(<<Shorthand("rdf", "type")>>),
     conf |-> [type |-> "ex:T", properties |-> <<Shorthand("ex", "p")>>]]

\* two detailed properties with the same document key
CfgSharedKey ==
    [session |-> SessionConf(<<>>),
     conf |-> [properties |-> <<Detailed("ex", "a", "a", "label"),
                                Detailed("ex", "b", "b", "label")>>]]

UpsertConfigs == {CfgShorthand, CfgTyped, CfgSharedKey}

\* An Indexer whose query is built, a document of http://e/E1 that the
\* index holds, and a row of the same entity still to be projected.
InitUpsert ==
    /\ \E c \in UpsertConfigs :
          /\ conf = c.conf
          /\ session = c.session
          /\ properties = sparql(c.session, c.conf).properties
          /\ query = sparql(c.session, c.conf).query
    /\ max_size = 1
    /\ pc = "upsert"
    /\ error = "none"
    /\ cache = <<>>
    /\ indexed = {}
    /\ blanknodes = EmptyMap
    /\ count = 0
    /\ msg = EmptyMap
    /\ \E stored \in Documents, node \in Rows(query) :
          /\ node.id = [type |-> "uri", value |-> "http://e/E1"]
          /\ hist = [op |-> "arguments", stored |-> stored, node |-> node]
    /\ clock = 0
    /\ stored_at = EmptyMap
    /\ resident_since = EmptyMap
    /\ seen_values = EmptyMap
    /\ resolved = {}
    /\ yielded = <<>>

\* lines 329-364 of binding_as_doc: body and params of the row
call_project ==
    /\ pc = "upsert"
    /\ hist.op = "arguments"
    /\ \E pr \in {project(hist.node, conf, properties, unescape(hist.node.id))} :
          /\ hist' = [op |-> "project", stored |-> hist.stored,
                      node |-> hist.node, body |-> pr.body,
                      params |-> pr.params]
          /\ error' = pr.error
    /\ UNCHANGED <<conf, session, pc, max_size, cache, indexed, properties,
                   blanknodes, count, query, msg, clock, stored_at,
                   resident_since, seen_values, resolved, yielded>>

\* lines 399-404: the update message of the row
call_update_script_for ==
    /\ pc = "upsert"
    /\ hist.op = "project"
    /\ error = "none"
    /\ \E s \in {update_script_for(properties, hist.body)} :
          /\ hist' = [op |-> "update_script_for", stored |-> hist.stored,
                      node |-> hist.node, body |-> hist.body,
                      params |-> hist.params, script |-> s.script]
          /\ error' = s.error
    /\ UNCHANGED <<conf, session, pc, max_size, cache, indexed, properties,
                   blanknodes, count, query, msg, clock, stored_at,
                   resident_since, seen_values, resolved, yielded>>

\* the index runs the script of the message on the document it holds
call_run_script ==
    /\ pc = "upsert"
    /\ hist.op = "update_script_for"
    /\ error = "none"
    /\ \E r \in {run_script(hist.stored, hist.script, hist.params)} :
          /\ hist' = [op |-> "run_script", stored |-> hist.stored,
                      node |-> hist.node, body |-> hist.body,
                      params |-> hist.params, script |-> hist.script,
                      source |-> r.source]
          /\ error' = r.error
    /\ UNCHANGED <<conf, session, pc, max_size, cache, indexed, properties,
                   blanknodes, count, query, msg, clock, stored_at,
                   resident_since, seen_values, resolved, yielded>>

NextUpsert ==
    \/ call_project
    \/ call_update_script_for
    \/ call_run_script

SpecUpsert == InitUpsert /\ [][NextUpsert]_vars

\* ------------------------------------------------------------ properties
\* the keys of a dictionary, oldest first
KeyOrder(c) == [i \in 1..Len(c) |-> c[i].key]

\* the last call was binding_as_doc and it returned a message
Returned == hist.op = "binding_as_doc" /\ ~hist.raised

ReplaceKeys == {"_index", "_type", "_id", "_source"}

UpsertKeys == {"_index", "_type", "_id", "_op_type", "script", "params",
               "upsert"}

\* a row of the configuration CfgShorthand: ?id a uri, ?p a value
RowP(uri, value) ==
    [id |-> [type |-> "uri", value |-> uri],
     bindings |-> <<[var |-> "p", value |-> value]>>]

\* C1: every document resident in the cache holds, for every key, exactly
\* the union of the values the rows of its entity had for that key, a
\* property key holds no value twice, and the Replace message returned for
\* a first sighting or a hit carries that cached document.  The union is a
\* set, so it is the same for every arrival order of the rows.
C1_CachedDocumentIsUnionOfRows ==
    /\ \A i \in 1..Len(cache) :
          LET doc == cache[i].value
              seen == seen_values[cache[i].key]
          IN  /\ (DOMAIN doc) \ {"@id"} = DOMAIN seen
              /\ \A k \in DOMAIN seen :
                    /\ ToSet(doc[k]) = seen[k]
                    /\ ~starts_with_at(k) => NoDuplicates(doc[k])
    /\ (Returned /\ hist.path \in {"new", "hit"}) =>
          /\ DOMAIN msg = ReplaceKeys
          /\ msg["_source"] = cache_get(cache, hist.key)

\* C1 witness: three rows of one entity were merged into a cached document
\* with two values or more under "p", one of the rows repeating a value
C1_Witness ==
    /\ Returned /\ hist.path = "hit" /\ Len(hist.rows) = 3
    /\ \A i \in 1..3 : hist.rows[i].id = hist.rows[1].id
    /\ hist.rows[1] = hist.rows[2]
    /\ "p" \in DOMAIN msg["_source"]
    /\ Len(msg["_source"]["p"]) = 2

\* the rows of Scenario A
ScenarioA ==
    <<RowP("http://e/E1", "1"), RowP("http://e/E%32", "2"),
      RowP("http://e/E1", "3")>>

\* C2: a row whose key is in indexed but not in the cache yields an update
\* message with script, params and upsert, the upsert body being the
\* document of that row alone, and no _source; with max_size 1 and the rows
\* of Scenario A the third message is such an update with upsert p = [3].
C2_UpsertWhenSeenButNotCached ==
    /\ (Returned /\ hist.was_indexed
            /\ hist.key \notin cache_keys(hist.before)) =>
          /\ DOMAIN msg = UpsertKeys
          /\ msg["_op_type"] = "update"
          /\ msg["upsert"] = hist.body
          /\ msg["_id"] = hist.uri
    /\ (hist.op = "binding_as_doc" /\ max_size = 1 /\ hist.rows = ScenarioA) =>
          /\ DOMAIN msg = UpsertKeys
          /\ msg["upsert"] = Put(Put(EmptyMap, "@id", "http://e/E1"),
                                 "p", <<"3">>)

\* C2 witness: Scenario A has run with max_size 1
C2_Witness ==
    /\ hist.op = "binding_as_doc" /\ max_size = 1 /\ hist.rows = ScenarioA
    /\ hist.path = "miss" /\ ~hist.raised

\* C3 (as claimed): a row of a seen, evicted entity always gives an Upsert
\* and update_script_for raises nothing
C3_CacheMissNeverFails ==
    (hist.op = "binding_as_doc" /\ hist.path = "miss") =>
        /\ ~hist.raised
        /\ error = "none"
        /\ DOMAIN msg = UpsertKeys

\* C4: a row whose key was not in indexed puts the key in indexed, stores
\* the document of the row in the cache under the key and returns a message
\* with _source, that document, and neither _op_type nor script.
C4_FirstSightingIsReplace ==
    (hist.op = "binding_as_doc" /\ ~hist.was_indexed) =>
        /\ ~hist.raised
        /\ hist.key \in indexed
        /\ hist.key \in cache_keys(cache)
        /\ cache_get(cache, hist.key) = hist.body
        /\ DOMAIN msg = ReplaceKeys
        /\ msg["_source"] = hist.body
        /\ msg["_id"] = hist.uri
        /\ hist.body["@id"] = hist.uri

\* C4 witness: a first sighting when the cache was full
C4_Witness ==
    /\ hist.op = "binding_as_doc" /\ ~hist.was_indexed
    /\ Len(hist.before) = max_size
    /\ Len(hist.node.bindings) > 0

\* C5: the dictionary never holds more than max_size entries.
C5_AtMostMaxSize == Len(cache) <= max_size

\* C5 witness: a store into a full dictionary of two entries or more
C5_Witness ==
    /\ hist.op = "setitem" /\ max_size >= 2
    /\ Len(hist.before) = max_size /\ Len(cache) = max_size
    /\ hist.key \notin cache_keys(hist.before)

\* the keys resident when the i-th entry of the last store was evicted
ResidentAtEviction(i) ==
    cache_keys(hist.before) \ {hist.evicted[j] : j \in 1..(i - 1)}

C7_HitKeepsCacheOrder ==
    (hist.op = "binding_as_doc" /\ hist.path = "hit") =>
        KeyOrder(cache) = KeyOrder(hist.before)

DuplicateFree(d) == \A k \in (DOMAIN d) \ {"@id"} : NoDuplicates(d[k])

\* C8: merge_bodies(d, d) returns a document equal to d when the lists of d
\* hold no value twice.
C8_MergeIdempotent ==
    (hist.op = "merge_bodies" /\ hist.old = hist.new
        /\ DuplicateFree(hist.old)) => hist.body = hist.old

\* C8 witness: a document with a type and two values merged with itself
C8_Witness ==
    /\ hist.op = "merge_bodies" /\ hist.old = hist.new
    /\ DuplicateFree(hist.old)
    /\ DOMAIN hist.old = {"@id", "@type", "p"}
    /\ Len(hist.old["p"]) = 2

\* C9: skolemize gives one raw blank-node key one identifier in all its
\* calls and two raw keys two identifiers, and a row whose blank-node key
\* was resolved before has the key of the earlier row: it is never a first
\* sighting.
C9_SkolemizeStable ==
    /\ \A a, b \in resolved : (a[1] = b[1]) <=> (a[2] = b[2])
    /\ \A a \in resolved :
          a[1] \in DOMAIN blanknodes /\ a[2] = urn(blanknodes[a[1]])
    /\ (hist.op = "binding_as_doc" /\ hist.was_resolved) =>
          /\ hist.was_indexed
          /\ hist.path \in {"hit", "miss"}
          /\ hist.key = uuid5(urn(blanknodes[hist.node.id.value]))

\* C9 witness: two blank nodes were resolved and a second row of one of
\* them was merged with its first
C9_Witness ==
    /\ Cardinality({a[1] : a \in resolved}) = 2
    /\ hist.op = "binding_as_doc" /\ hist.was_resolved /\ hist.path = "hit"

\* the documents of a message
DocumentsOf(m) == {m[k] : k \in (DOMAIN m) \cap {"_source", "upsert"}}

\* C10 (as claimed): every document of a returned message or of the cache
\* has "@id", its document id, and a list without duplicates under every
\* other key, "@type" included
C10_DocumentsDeduplicated ==
    \A d \in DocumentsOf(msg) \cup {cache[i].value : i \in 1..Len(cache)} :
        /\ "@id" \in DOMAIN d
        /\ \A k \in (DOMAIN d) \ {"@id"} : NoDuplicates(d[k])

\* the keys of a document that start with the metadata marker "@"
MetadataKeys == {"@id", "@type"}

\* C11: update_script_for emits no conditional-append block for a key of
\* the partial document that starts with "@": the blocks of the script it
\* returns name exactly the other keys of the partial document.
C11_NoBlockForMetadataKey ==
    (hist.op = "update_script_for" /\ error = "none")
        => /\ \A e \in hist.script :
                 e.var \notin MetadataKeys /\ e.jsonld \notin MetadataKeys
           /\ {e.var : e \in hist.script} = (DOMAIN hist.body) \ MetadataKeys

\* a script was made for a partial document that holds "@id", "@type" and
\* a property key
C11_Witness ==
    /\ hist.op = "update_script_for"
    /\ error = "none"
    /\ MetadataKeys \subseteq DOMAIN hist.body
    /\ hist.script # {}

\* the document id of a row read so far: a blank node keeps the
\* identifier skolemize gave it
DocumentIdOf(node) ==
    IF node.id.type = "uri" THEN unescape(node.id)
    ELSE urn(blanknodes[node.id.value])

\* C12: json_reader yields exactly one message per row, in the order of
\* the rows: after k rows were read, k messages were yielded, and the
\* k-th message is the one of the k-th row.
C12_OneInstructionPerRow ==
    hist.op = "binding_as_doc"
        => /\ Len(yielded) = Len(hist.rows)
           /\ \A k \in 1..Len(yielded) :
                 yielded[k]["_id"] = DocumentIdOf(hist.rows[k])

\* the properties of the configuration in its order: the common ones,
\* then the ones of the type
Configured ==
    session.common_properties
        \o (IF "properties" \in DOMAIN conf THEN conf.properties ELSE <<>>)

\* the property clauses of the query, in the order of the query
Clauses == SelectSeq(query, LAMBDA l : l.kind = "property")

\* the predicate a configured property asks for
PredicateOf(p) == IF p.kind = "str" THEN p.qname ELSE p.sparql

\* where the clause of the i-th configured property has to be: after the
\* required properties before it if it is required, else after every
\* required property and the optional ones before it
PlaceOf(i) ==
    LET same == {j \in 1..(i - 1) : is_property_required(Configured[j])
                                     = is_property_required(Configured[i])}
        required == {j \in 1..Len(Configured) :
                        is_property_required(Configured[j])}
    IN  IF is_property_required(Configured[i]) THEN Cardinality(same) + 1
        ELSE Cardinality(required) + Cardinality(same) + 1

\* C13: in the query the clauses of the required properties come before
\* those of the optional ones, and each group keeps the order of the
\* configuration, common properties first.
C13_RequiredFirstStable ==
    pc = "reading"
        => /\ Len(Clauses) = Len(Configured)
           /\ \A i \in 1..Len(Configured) :
                 /\ Clauses[PlaceOf(i)].sparql = PredicateOf(Configured[i])
                 /\ Clauses[PlaceOf(i)].optional
                        = ~is_property_required(Configured[i])
           /\ \A i, j \in 1..Len(Clauses) :
                 (Clauses[i].optional /\ ~Clauses[j].optional) => j < i

\* a query was built from common and own properties that both start with
\* an optional property followed by a required one
C13_Witness ==
    /\ pc = "reading"
    /\ Len(session.common_properties) = 2
    /\ Len(conf.properties) = 2
    /\ ~is_property_required(Configured[1])
    /\ is_property_required(Configured[2])
    /\ ~is_property_required(Configured[3])
    /\ is_property_required(Configured[4])

\* the variable the i-th configured property resolves to: its variable,
\* or for a shorthand name its local part, or its uuid5 if an earlier
\* property resolved to the local part
RECURSIVE Resolved(_)
Resolved(i) ==
    LET p == Configured[i]
    IN  IF p.kind # "str" THEN p.variable
        ELSE IF \E j \in 1..(i - 1) : Resolved(j) = p.qname[Len(p.qname)]
        THEN uuid5_hex(p.qname)
        ELSE p.qname[Len(p.qname)]

\* two configured properties resolve to the same variable
Collides ==
    \E i, j \in 1..Len(Configured) : i < j /\ Resolved(i) = Resolved(j)

\* the errors of sparql()
QueryErrors == {"No properties configured", "Duplicate property name"}

\* C14: building the query fails when no property is configured and when
\* two properties resolve to the same variable (and only then), and a run
\* that failed so has read no row and yielded no message.
C14_QueryFailsBeforeAnyRow ==
    /\ pc # "start"
          => /\ (Configured = <<>>) <=> (error = "No properties configured")
             /\ (Configured # <<>> /\ Collides)
                    <=> (error = "Duplicate property name")
    /\ error \in QueryErrors
          => pc = "failed" /\ count = 0 /\ yielded = <<>> /\ msg = EmptyMap

\* a run failed for two properties with the same variable
C14_Witness ==
    /\ pc = "failed"
    /\ error = "Duplicate property name"
    /\ Collides
    /\ count = 0

\* the configuration names a type and asks for its subclasses the way
\* sparql() takes as transitive
Transitive ==
    /\ "type" \in DOMAIN conf
    /\ "subclasses" \in DOMAIN conf
    /\ conf.subclasses = "owl"

\* the lines of the query from UNION { to its closing brace
UnionBranch ==
    IF \E i \in 1..Len(query) : query[i].kind = "union"
    THEN SubSeq(query,
                CHOOSE i \in 1..Len(query) : query[i].kind = "union",
                CHOOSE i \in 1..Len(query) : query[i].kind = "end union")
    ELSE <<>>

\* C15: when transitive subclass expansion is configured, the query has a
\* union branch that holds the pattern ?subClass rdfs:subClassOf+ <type>
\* and no single-level pattern ?subClass rdfs:subClassOf <type>.
C15_TransitivePattern ==
    (pc = "reading" /\ Transitive)
        => /\ \E i \in 1..Len(UnionBranch) :
                 UnionBranch[i] = [kind |-> "subClassOf+", type |-> conf.type]
           /\ \A i \in 1..Len(query) : query[i].kind # "subClassOf"

\* a query was built for a type with transitive subclass expansion
C15_Witness ==
    /\ pc = "reading"
    /\ Transitive
    /\ UnionBranch # <<>>

\* the keys of a partial document that are no metadata keys
PropertyKeys(body) == (DOMAIN body) \ MetadataKeys

\* C16: running the script of an Upsert on the stored document gives, for
\* every non-metadata key of the partial document, the list merge_bodies
\* of the stored and the partial document gives; so for a key that holds
\* the empty list of a null binding.
C16_ScriptEqualsMerge ==
    (hist.op = "run_script" /\ error = "none")
        => \E merged \in merge_bodies(hist.stored, hist.body) :
              \A k \in PropertyKeys(hist.body) :
                 k \in DOMAIN hist.source /\ hist.source[k] = merged[k]

\* C17: for every bound variable of a row other than id and type, the
\* partial document holds under the document key of the variable's
\* property the empty list if the binding is null and the list of the
\* bound value otherwise, also when two properties have one document key.
C17_PartialDocumentHoldsEveryBinding ==
    (hist.op = "project" /\ error = "none")
        => \A i \in 1..Len(hist.node.bindings) :
              LET b == hist.node.bindings[i]
              IN  (b.var \notin {ID, TYPE})
                     => /\ properties[b.var].jsonld \in DOMAIN hist.body
                        /\ hist.body[properties[b.var].jsonld]
                              = IF b.value = None THEN <<>> ELSE <<b.value>>

\* the configuration names a type and asks for its subclasses the way
\* sparql() takes as single-level: any true value but "owl"
SingleLevel ==
    /\ "type" \in DOMAIN conf
    /\ "subclasses" \in DOMAIN conf
    /\ conf.subclasses \notin Falsy \cup {"owl"}

\* the union branch holds the line ?subClass a owl:Class
ClassMembershipCheck ==
    \E i \in 1..Len(UnionBranch) : UnionBranch[i].kind = "subClass a owl:Class"

\* C18 as stated: the class-membership check on ?subClass is in the union
\* branch when single-level expansion is configured and is not there when
\* transitive expansion is configured.
C18_CheckForSingleLevelOnly ==
    pc = "reading"
        => /\ SingleLevel => ClassMembershipCheck
           /\ Transitive => ~ClassMembershipCheck

\* C18 amended: the class-membership check on ?subClass is in the union
\* branch when transitive expansion is configured and is not there when
\* single-level expansion is configured.
C18_CheckForTransitiveOnly ==
    pc = "reading"
        => /\ Transitive => ClassMembershipCheck
           /\ SingleLevel => ~ClassMembershipCheck

\* a query was built for a type with single-level subclass expansion
C18_Witness ==
    /\ pc = "reading"
    /\ SingleLevel
    /\ \E i \in 1..Len(UnionBranch) :
          UnionBranch[i] = [kind |-> "subClassOf", type |-> conf.type]

\* a type configuration has a required triple: a required common
\* property, a type constraint, or a property of its own with required: true
HasRequiredTriple(type_conf) ==
    \/ \E i \in 1..Len(session.common_properties) :
          is_property_required(session.common_properties[i])
    \/ "type" \in DOMAIN type_conf
    \/ /\ "properties" \in DOMAIN type_conf
       /\ \E i \in 1..Len(type_conf.properties) :
             is_property_required(type_conf.properties[i])

\* C19: check_required_properties raises no error exactly when every type
\* of every index has a required triple.
C19_AcceptsIffRequiredTriple ==
    pc = "checked"
        => ((error = "none")
               <=> \A i \in 1..Len(session.indexes) :
                      HasRequiredTriple(session.indexes[i]))

\* the keys that were seen but no longer cached before the last row
EvictedBefore == hist.seen_before \ cache_keys(hist.before)

\* C20: the cache keys are a subset of the seen-set; the Upsert path
\* changes neither the cache nor the seen-set; a key that was evicted is
\* never stored in the cache again, and every later row of its entity
\* yields an Upsert and no Replace.
C20_EvictedStaysEvicted ==
    /\ cache_keys(cache) \subseteq indexed
    /\ hist.op = "binding_as_doc"
          => /\ hist.path = "miss"
                   => cache = hist.before /\ indexed = hist.seen_before
             /\ \A k \in EvictedBefore : k \notin cache_keys(cache)
             /\ hist.key \in EvictedBefore
                   => /\ ~hist.raised
                      /\ DOMAIN msg = UpsertKeys
                      /\ yielded[Len(yielded)] = msg

====
